---- MODULE Spec2Model ----
(***************************************************************************)
(* Model of src/app.js: three GravityScene objects (Earth, Moon, Jupiter), *)
(* each owning a THREE scene, a CANNON world and a list of active balls,   *)
(* driven by one shared requestAnimationFrame callback and by the click,   *)
(* change and resize event listeners registered in the constructor.        *)
(*                                                                         *)
(* JavaScript runs every callback to completion, so each listener and the  *)
(* frame callback is one atomic action.                                    *)
(*                                                                         *)
(* Numbers.  Positions and velocities are fixed-point integers in          *)
(* hundredths (8 is 800, 0.1 is 10).  Gravity values are fixed-point       *)
(* integers scaled by GravityScale.  The result of a JS division of two    *)
(* non-negative integers is kept as a fraction in lowest terms, with       *)
(* den = 0 for Infinity (num = 1) and NaN (num = 0).                       *)
(*                                                                         *)
(* The physics library is outside the repository: world.step() is a        *)
(* nondeterministic choice, for every body that is in the world, of one of *)
(* the body states in BodyStates (which includes staying as it is when the *)
(* accumulated time is below one sub-step).                                *)
(***************************************************************************)
EXTENDS Integers, Sequences, FiniteSets, TLC

\* ------------------------------------------------------------------ bounds
MaxAdds == 2        \* balls created in a run of Spec and of SpecApp
MaxBalls == 3       \* balls created in a run of SpecBalls and of FairSpec
MaxInputLen == 2    \* characters typed into a gravity input

\* --------------------------------------------------------------- constants
ballRadius == 100           \* this.ballRadius = 1
VelocityThreshold == 10     \* velocity < 0.1

SceneNames == {"earth", "moon", "jupiter"}
SceneOrder == <<"earth", "moon", "jupiter">>

GravityScale == 10 ^ MaxInputLen

\* new GravityScene(..., 9.8), (..., 1.6), (..., 24.8)
InitialGravity ==
  [earth |-> 98 * (GravityScale \div 10),
   moon |-> 16 * (GravityScale \div 10),
   jupiter |-> 248 * (GravityScale \div 10)]

Vec3(a, b, c) == [x |-> a, y |-> b, z |-> c]

IdentityQuaternion == [x |-> 0, y |-> 0, z |-> 0, w |-> 100]
TurnedQuaternion == [x |-> 100, y |-> 0, z |-> 0, w |-> 0]

\* ballBody.position.set(0, 8, 0)
DropPosition == Vec3(0, 800, 0)

\* A freshly constructed CANNON.Body placed at the drop position.
NewBody == [position |-> DropPosition, quaternion |-> IdentityQuaternion,
            velocity |-> Vec3(0, 0, 0)]

\* A freshly constructed THREE.Mesh: at the origin, not rotated.
NewMesh == [position |-> Vec3(0, 0, 0), quaternion |-> IdentityQuaternion]

\* The body states world.step() can leave a ball body in.
BodyStates ==
  { NewBody,
    \* on the ground at y = radius + 1 exactly, speed below 0.1
    [position |-> Vec3(-100, 200, 100), quaternion |-> TurnedQuaternion,
     velocity |-> Vec3(6, -7, 0)],
    \* on the ground, rolling with speed exactly 0.1
    [position |-> Vec3(100, 200, 0), quaternion |-> TurnedQuaternion,
     velocity |-> Vec3(6, -8, 0)],
    \* slow (0.09) but just above the ground band
    [position |-> Vec3(0, 201, 0), quaternion |-> IdentityQuaternion,
     velocity |-> Vec3(0, -9, 0)] }

\* ------------------------------------------------------------------- state
VARIABLES
  scenes,     \* scene name -> the GravityScene object
  meshObjs,   \* heap of THREE.Mesh objects created by addBall, by id
  bodyObjs,   \* heap of CANNON.Body objects created by addBall, by id
  examined,   \* scene name -> log of the last run of the update loop
  ticked,     \* scenes whose animate() ran in the last frame, in order
  lastVal     \* scene name -> `val` of the last change event of its input

vars == <<scenes, meshObjs, bodyObjs, examined, ticked, lastVal>>

State == [scenes |-> scenes, meshObjs |-> meshObjs, bodyObjs |-> bodyObjs,
          examined |-> examined, ticked |-> ticked, lastVal |-> lastVal]

\* --------------------------------------------------------- pure operators
\* Statement sequencing: F applied to the value x has once it is computed.
Eval(x, F(_)) == CHOOSE r \in {F(v) : v \in {x}} : TRUE

RECURSIVE GCD(_, _)
GCD(a, b) == IF b = 0 THEN a ELSE GCD(b, a % b)

\* JS `w / h` for non-negative integers w, h.
Divide(w, h) ==
  IF h = 0 THEN [num |-> IF w = 0 THEN 0 ELSE 1, den |-> 0]
  ELSE [num |-> w \div GCD(w, h), den |-> h \div GCD(w, h)]

Digits == {"2"}
DigitValue == [c \in Digits |-> 2]
Alphabet == Digits \cup {"-", ".", " "}

RECURSIVE SkipSpaces(_)
SkipSpaces(str) ==
  IF str # <<>> /\ Head(str) = " " THEN SkipSpaces(Tail(str)) ELSE str

\* The longest prefix of str made of digits.
RECURSIVE DigitRun(_)
DigitRun(str) ==
  IF str # <<>> /\ Head(str) \in Digits
  THEN <<Head(str)>> \o DigitRun(Tail(str))
  ELSE <<>>

RECURSIVE DigitsToNat(_)
DigitsToNat(ds) ==
  IF ds = <<>> THEN 0
  ELSE 10 * DigitsToNat(SubSeq(ds, 1, Len(ds) - 1)) + DigitValue[ds[Len(ds)]]

Drop(str, n) == SubSeq(str, n + 1, Len(str))

\* JS parseFloat on a string over Alphabet: leading white space is skipped,
\* then the longest prefix that is a decimal literal is converted; NaN when
\* there is no such prefix.  The value is scaled by GravityScale.
parseFloat(str) ==
  LET s0 == SkipSpaces(str)
      neg == s0 # <<>> /\ Head(s0) = "-"
      s1 == IF neg THEN Tail(s0) ELSE s0
      int == DigitRun(s1)
      s2 == Drop(s1, Len(int))
      dot == s2 # <<>> /\ Head(s2) = "."
      frac == IF dot THEN DigitRun(Tail(s2)) ELSE <<>>
      mag == DigitsToNat(int) * GravityScale
             + (DigitsToNat(frac) * GravityScale) \div (10 ^ Len(frac))
  IN IF int = <<>> /\ frac = <<>>
     THEN [seen |-> TRUE, isNaN |-> TRUE, value |-> 0]
     ELSE [seen |-> TRUE, isNaN |-> FALSE, value |-> IF neg THEN -mag ELSE mag]

GravityInputs == UNION {[1..n -> Alphabet] : n \in 0..MaxInputLen}

\* Array.prototype.splice(i, 1) with a 0-based index i.
Splice(seq, i) == SubSeq(seq, 1, i) \o SubSeq(seq, i + 2, Len(seq))

\* Array.prototype.indexOf, 0-based, -1 when absent.
RECURSIVE IndexFrom(_, _, _)
IndexFrom(seq, e, i) ==
  IF i >= Len(seq) THEN -1
  ELSE IF seq[i + 1] = e THEN i
  ELSE IndexFrom(seq, e, i + 1)

IndexOf(seq, e) == IndexFrom(seq, e, 0)

\* THREE.Object3D.remove / CANNON.World.removeBody: drop the object from the
\* list it is in; nothing happens when it is not there.
RemoveObject(seq, e) ==
  IF IndexOf(seq, e) = -1 THEN seq ELSE Splice(seq, IndexOf(seq, e))

BallRef(n) == [kind |-> "ball", id |-> n]

\* Vector3.length() < 0.1, compared on the squares.
LengthSquared(v) == v.x * v.x + v.y * v.y + v.z * v.z

\* ------------------------------------------------------------ construction
Dims == {<<0, 0>>, <<4, 3>>, <<8, 6>>}
DefaultDims == <<4, 3>>

\* The container sizes when the page loads.
InitialLayout == [s \in SceneNames |-> DefaultDims]

\* Container sizes after a layout change: the earth container varies.
SceneLayouts ==
  {l \in [SceneNames -> Dims] :
     l["moon"] = DefaultDims /\ l["jupiter"] = DefaultDims}

\* onWindowResize() computing the aspect as h / w
onWindowResizeSwapped(st, s) ==
  LET w == st.scenes[s].container[1]
      h == st.scenes[s].container[2]
  IN [st EXCEPT !.scenes[s].cameraAspect = Divide(h, w),
                !.scenes[s].rendererSize = <<w, h>>]

\* onWindowResize()
onWindowResize(st, s) ==
  LET w == st.scenes[s].container[1]
      h == st.scenes[s].container[2]
  IN [st EXCEPT !.scenes[s].cameraAspect = Divide(w, h),
                !.scenes[s].rendererSize = <<w, h>>]

\* constructor(container, gravityValue), up to the listeners
NewScene(dims, g) ==
  [container |-> dims,
   gravityValue |-> g,
   children |-> << [kind |-> "light", id |-> 0],
                   [kind |-> "ground", id |-> 0] >>,
   cameraAspect |-> Divide(dims[1], dims[2]),
   rendererSize |-> dims,
   worldGravity |-> Vec3(0, -g, 0),
   bodies |-> << [kind |-> "ground", id |-> 0] >>,
   balls |-> <<>>,
   rendered |-> <<>>]

\* the three `new GravityScene(...)` of the module, each ending with a call
\* of onWindowResize()
Init ==
  /\ scenes = [s \in SceneNames |->
                 onWindowResize(
                   [scenes |-> [t \in SceneNames |->
                                  NewScene(InitialLayout[t], InitialGravity[t])]],
                   s).scenes[s]]
  /\ meshObjs = <<>>
  /\ bodyObjs = <<>>
  /\ examined = [s \in SceneNames |-> <<>>]
  /\ ticked = <<>>
  /\ lastVal = [s \in SceneNames |->
                  [seen |-> FALSE, isNaN |-> FALSE, value |-> 0]]

\* ----------------------------------------------------------------- addBall
\* addBall() without this.world.addBody(ballBody)
addBallNoBody(st, s) ==
  LET n == Len(st.meshObjs) + 1
  IN [st EXCEPT
        !.meshObjs = Append(@, NewMesh),
        !.scenes[s].children = Append(@, BallRef(n)),
        !.bodyObjs = Append(@, NewBody),
        !.scenes[s].balls = Append(@, [mesh |-> n, body |-> n, done |-> FALSE])]

\* addBall() pushing onto one `balls` array shared by the three scenes
addBallShared(st, s) ==
  LET n == Len(st.meshObjs) + 1
  IN [st EXCEPT
        !.meshObjs = Append(@, NewMesh),
        !.scenes[s].children = Append(@, BallRef(n)),
        !.bodyObjs = Append(@, NewBody),
        !.scenes[s].bodies = Append(@, BallRef(n)),
        !.scenes["earth"].balls =
           Append(@, [mesh |-> n, body |-> n, done |-> FALSE])]

addBall(st, s) ==
  LET n == Len(st.meshObjs) + 1
  IN [st EXCEPT
        !.meshObjs = Append(@, NewMesh),
        !.scenes[s].children = Append(@, BallRef(n)),
        !.bodyObjs = Append(@, NewBody),
        !.scenes[s].bodies = Append(@, BallRef(n)),
        !.scenes[s].balls = Append(@, [mesh |-> n, body |-> n, done |-> FALSE])]

\* ------------------------------------------------------------- the listeners
\* the change listener setting the world gravity to (0, +val, 0)
gravityChangeUp(st, s, str) ==
  LET val == parseFloat(str)
      heard == [st EXCEPT !.lastVal[s] = val]
  IN IF ~val.isNaN
     THEN [heard EXCEPT !.scenes[s].gravityValue = val.value,
                        !.scenes[s].worldGravity = Vec3(0, val.value, 0)]
     ELSE heard

\* the change listener without the isNaN test
gravityChangeNoCheck(st, s, str) ==
  LET val == parseFloat(str)
      heard == [st EXCEPT !.lastVal[s] = val]
  IN [heard EXCEPT !.scenes[s].gravityValue = val.value,
                   !.scenes[s].worldGravity = Vec3(0, -val.value, 0)]

\* gravityInput 'change' listener
gravityChange(st, s, str) ==
  LET val == parseFloat(str)
      heard == [st EXCEPT !.lastVal[s] = val]
  IN IF ~val.isNaN
     THEN [heard EXCEPT !.scenes[s].gravityValue = val.value,
                        !.scenes[s].worldGravity = Vec3(0, -val.value, 0)]
     ELSE heard

\* ----------------------------------------------------------------- animate
\* world.step(1/60, delta): every ball body of the scene's world moves to the
\* state the outcome p gives it.
worldStep(st, s, p) ==
  [st EXCEPT !.bodyObjs =
     [n \in DOMAIN st.bodyObjs |->
        IF BallRef(n) \in {st.scenes[s].bodies[k] :
                             k \in DOMAIN st.scenes[s].bodies}
        THEN p[n] ELSE st.bodyObjs[n]]]

\* The resting test with `position.y < this.ballRadius + 1`
restingStrict(body) ==
  LET velocitySquared == LengthSquared(body.velocity)
      nearGround == body.position.y < ballRadius + 100
  IN velocitySquared < VelocityThreshold * VelocityThreshold /\ nearGround

\* The resting test of the update loop.
resting(body) ==
  LET velocitySquared == LengthSquared(body.velocity)
      nearGround == body.position.y <= ballRadius + 100
  IN velocitySquared < VelocityThreshold * VelocityThreshold /\ nearGround

\* The mesh-to-physics copy of the update loop for index i (0-based).
syncBall(st, s, i) ==
  LET ball == st.scenes[s].balls[i + 1]
  IN [st EXCEPT
        !.meshObjs[ball.mesh].position = st.bodyObjs[ball.body].position,
        !.meshObjs[ball.mesh].quaternion = st.bodyObjs[ball.body].quaternion,
        !.examined[s] = Append(@, [index |-> i, ball |-> ball])]

\* The loop body without this.world.removeBody(ball.body)
updateBallKeepBody(st, s, i) ==
  LET ball == st.scenes[s].balls[i + 1]
  IN IF ~ball.done /\ resting(st.bodyObjs[ball.body])
     THEN [syncBall(st, s, i) EXCEPT
             !.scenes[s].children = RemoveObject(@, BallRef(ball.mesh)),
             !.scenes[s].balls = Splice(@, i)]
     ELSE syncBall(st, s, i)

\* The loop body without this.scene.remove(ball.mesh)
updateBallKeepMesh(st, s, i) ==
  LET ball == st.scenes[s].balls[i + 1]
  IN IF ~ball.done /\ resting(st.bodyObjs[ball.body])
     THEN [syncBall(st, s, i) EXCEPT
             !.scenes[s].bodies = RemoveObject(@, BallRef(ball.body)),
             !.scenes[s].balls = Splice(@, i)]
     ELSE syncBall(st, s, i)

\* The loop body without this.balls.splice(i, 1)
updateBallNoSplice(st, s, i) ==
  LET ball == st.scenes[s].balls[i + 1]
  IN IF ~ball.done /\ resting(st.bodyObjs[ball.body])
     THEN [syncBall(st, s, i) EXCEPT
             !.scenes[s].balls[i + 1].done = TRUE,
             !.scenes[s].children = RemoveObject(@, BallRef(ball.mesh)),
             !.scenes[s].bodies = RemoveObject(@, BallRef(ball.body))]
     ELSE syncBall(st, s, i)

\* The body of the update loop for index i (0-based).
updateBall(st, s, i) ==
  LET ball == st.scenes[s].balls[i + 1]
      synced == syncBall(st, s, i)
  IN IF ~ball.done /\ resting(st.bodyObjs[ball.body])
     THEN [synced EXCEPT
             !.scenes[s].balls[i + 1].done = TRUE,
             !.scenes[s].children = RemoveObject(@, BallRef(ball.mesh)),
             !.scenes[s].bodies = RemoveObject(@, BallRef(ball.body)),
             !.scenes[s].balls = Splice(@, i)]
     ELSE synced

\* The loop run front to back: for (let i = 0; i < this.balls.length; i++)
RECURSIVE updateBallsFrom(_, _, _)
updateBallsFrom(st, s, i) ==
  IF i < Len(st.scenes[s].balls)
  THEN Eval(updateBall(st, s, i), LAMBDA next : updateBallsFrom(next, s, i + 1))
  ELSE st

updateBallsForward(st, s, i) == updateBallsFrom(st, s, 0)

\* for (let i = this.balls.length - 1; i >= 0; i--)
RECURSIVE updateBalls(_, _, _)
updateBalls(st, s, i) ==
  IF i >= 0
  THEN Eval(updateBall(st, s, i), LAMBDA next : updateBalls(next, s, i - 1))
  ELSE st

\* animate()
animate(st, s, p) ==
  Eval(worldStep(st, s, p), LAMBDA stepped :
  Eval([stepped EXCEPT !.examined[s] = <<>>, !.ticked = Append(@, s)],
       LAMBDA started :
  Eval(updateBalls(started, s, Len(started.scenes[s].balls) - 1),
       LAMBDA updated :
    [updated EXCEPT !.scenes[s].rendered = updated.scenes[s].children])))

\* animateAll(): earthScene.animate(); moonScene.animate();
\* jupiterScene.animate()
animateAll(st, p) ==
  Eval([st EXCEPT !.ticked = <<>>], LAMBDA begun :
  Eval(animate(begun, "earth", p), LAMBDA afterEarth :
  Eval(animate(afterEarth, "moon", p), LAMBDA afterMoon :
    animate(afterMoon, "jupiter", p))))

\* ----------------------------------------------------------------- actions
Become(st) ==
  /\ scenes' = st.scenes
  /\ meshObjs' = st.meshObjs
  /\ bodyObjs' = st.bodyObjs
  /\ examined' = st.examined
  /\ ticked' = st.ticked
  /\ lastVal' = st.lastVal

\* a click on the canvas of scene s
Click(s) == Become(addBall(State, s))

\* a change event of the gravity input of scene s with text str
GravityInput(s, str) == Become(gravityChange(State, s, str))

\* a window resize event: the containers take the sizes of layout l, then
\* the three resize listeners run in registration order
WindowResize(l) ==
  LET laid == [State EXCEPT
                 !.scenes = [s \in SceneNames |->
                               [scenes[s] EXCEPT !.container = l[s]]]]
  IN Become(onWindowResize(onWindowResize(onWindowResize(
              laid, "earth"), "moon"), "jupiter"))

\* ids of the ball bodies that are in some scene's world
InWorld ==
  {n \in DOMAIN bodyObjs :
     \E s \in SceneNames :
       \E k \in DOMAIN scenes[s].bodies : scenes[s].bodies[k] = BallRef(n)}

\* the bodies one frame's world.step() calls can leave
Outcomes == [DOMAIN bodyObjs -> BodyStates]

\* the frame whose world.step() calls have outcome p
FrameWith(p) == \E after \in {animateAll(State, p)} : Become(after)

\* one display refresh: the shared frame callback.  Only world.step() writes
\* the bodies, so the bodies after the frame are the outcome of its steps: a
\* state for every body that is in a world, and the bodies that are in no
\* world as they were.
Frame ==
  /\ bodyObjs' \in Outcomes
  /\ \A n \in DOMAIN bodyObjs \ InWorld : bodyObjs'[n] = bodyObjs[n]
  /\ FrameWith(bodyObjs')

\* ---------------------------------------------------------- specifications
EarthClick == Len(meshObjs) < MaxAdds /\ Click("earth")
EarthGravityInput == \E str \in GravityInputs : GravityInput("earth", str)
EarthResize == \E l \in SceneLayouts : WindowResize(l)

\* Spec: the events of one scene (Earth) and the shared frame callback
Next == EarthClick \/ EarthGravityInput \/ EarthResize \/ Frame

Spec == Init /\ [][Next]_vars

\* SpecApp: the events of all three scenes, over fewer inputs
AppInputs == {<<"2">>}
AppCases == {<<str, parseFloat(str)>> : str \in AppInputs}

AppClick == \E s \in SceneNames : Len(meshObjs) < MaxAdds /\ Click(s)
AppGravityInput ==
  \E s \in SceneNames : \E str \in AppInputs : GravityInput(s, str)

NextApp == AppClick \/ AppGravityInput \/ Frame

SpecApp == Init /\ [][NextApp]_vars

\* SpecBalls: only clicks on the Earth canvas and frames, with more balls
BallsClick == Len(meshObjs) < MaxBalls /\ Click("earth")

NextBalls == BallsClick \/ Frame

SpecBalls == Init /\ [][NextBalls]_vars

\* FairSpec: the scenario of MaxBalls clicks on the Earth canvas, and frames.
\* requestAnimationFrame re-arms the frame callback in every frame, so
\* frames keep coming, and the physics brings every ball that stays in the
\* world to rest in the end: a frame whose world step leaves ball n at rest
\* cannot stay possible for ever without happening (weak fairness).
\* The first disjunct is a case of the second (only ball n moves), put first
\* so that one frame decides whether the action is enabled.
FrameSettling(n) ==
  /\ n \in InWorld
  /\ \/ \E b \in BodyStates :
          resting(b) /\ bodyObjs' = [bodyObjs EXCEPT ![n] = b] /\ Frame
     \/ bodyObjs' \in Outcomes /\ resting(bodyObjs'[n]) /\ Frame

FairSpec ==
  /\ Init /\ [][NextBalls]_vars
  /\ \A n \in 1..MaxBalls : WF_vars(FrameSettling(n))

\* ------------------------------------------------------------- properties
\* ids of the balls in the active collection of scene s
ActiveIn(s) == {scenes[s].balls[i].mesh : i \in DOMAIN scenes[s].balls}
Active == UNION {ActiveIn(s) : s \in SceneNames}

Count(seq, e) == Cardinality({k \in DOMAIN seq : seq[k] = e})
HasBall(seq, n) == \E k \in DOMAIN seq : seq[k] = BallRef(n)
BallCount(seq) == Cardinality({k \in DOMAIN seq : seq[k].kind = "ball"})

\* velocity magnitude below 0.1 and height at most radius + 1, in hundredths
AtRest(body) ==
  /\ body.velocity.x * body.velocity.x + body.velocity.y * body.velocity.y
       + body.velocity.z * body.velocity.z < 100
  /\ body.position.y <= 200

\* every text of GravityInputs with its parseFloat
ParsedInputs == {<<str, parseFloat(str)>> : str \in GravityInputs}

\* one text for each value the texts parse to: the listener reads the text
\* only through parseFloat, so texts with the same parse make the same steps
InputCases ==
  {(CHOOSE inp \in ParsedInputs : inp[2] = val) :
     val \in {parsed[2] : parsed \in ParsedInputs}}

Unsettled(seq, heap) == SelectSeq(seq, LAMBDA b : ~AtRest(heap[b.body]))

\* C1: in every reachable state, each entry of `balls` has exactly one mesh
\* in the scene and exactly one body in the world, and every ball mesh in the
\* scene and every ball body in the world belongs to exactly one entry.
C1_HandlesAgree ==
  \A s \in SceneNames :
    LET sc == scenes[s]
    IN /\ \A i \in DOMAIN sc.balls :
            /\ Count(sc.children, BallRef(sc.balls[i].mesh)) = 1
            /\ Count(sc.bodies, BallRef(sc.balls[i].body)) = 1
       /\ \A k \in DOMAIN sc.children :
            sc.children[k].kind = "ball" =>
              Cardinality({i \in DOMAIN sc.balls :
                             sc.balls[i].mesh = sc.children[k].id}) = 1
       /\ \A k \in DOMAIN sc.bodies :
            sc.bodies[k].kind = "ball" =>
              Cardinality({i \in DOMAIN sc.balls :
                             sc.balls[i].body = sc.bodies[k].id}) = 1

\* a ball is active in the Earth scene after an earlier one was removed
C1_Witness ==
  /\ \E n \in DOMAIN meshObjs : \E m \in ActiveIn("earth") :
       n < m /\ n \notin Active /\ meshObjs[m].position # Vec3(0, 0, 0)
  /\ ticked # <<>>

\* C2: a ball that the world step of a frame leaves slower than 0.1 and at
\* height <= radius + 1 is, by the end of that frame, out of the active
\* collection, out of the scene and out of the world; so no active ball is in
\* that condition between two callbacks.
C2_SettledRemoved ==
  /\ [][Frame =>
          \A s \in SceneNames : \A i \in DOMAIN scenes[s].balls :
            LET b == scenes[s].balls[i]
            IN AtRest(bodyObjs'[b.body]) =>
                 /\ \A j \in DOMAIN scenes'[s].balls : scenes'[s].balls[j] # b
                 /\ ~HasBall(scenes'[s].children, b.mesh)
                 /\ ~HasBall(scenes'[s].bodies, b.body)]_vars
  /\ [](\A s \in SceneNames : \A i \in DOMAIN scenes[s].balls :
          ~AtRest(bodyObjs[scenes[s].balls[i].body]))

\* a ball came to rest and is gone from the collection, the scene and the world
C2_Witness ==
  \E n \in DOMAIN bodyObjs :
    /\ AtRest(bodyObjs[n])
    /\ n \notin Active
    /\ \A s \in SceneNames :
         ~HasBall(scenes[s].children, n) /\ ~HasBall(scenes[s].bodies, n)

\* C3: addBall() can always run, and it appends exactly one entry to the
\* collection, leaving the earlier entries and their objects as they were;
\* the new entry has done = false, its body is at (0, 8, 0), its mesh is in
\* the scene and its body is in the world.
C3_AddBallAppends ==
  /\ [](\A s \in SceneNames : ENABLED Click(s))
  /\ [][\A s \in SceneNames : Click(s) =>
          LET old == scenes[s].balls
              new == scenes'[s].balls
          IN /\ Len(new) = Len(old) + 1
             /\ SubSeq(new, 1, Len(old)) = old
             /\ \A n \in DOMAIN bodyObjs :
                  bodyObjs'[n] = bodyObjs[n] /\ meshObjs'[n] = meshObjs[n]
             /\ new[Len(new)].done = FALSE
             /\ bodyObjs'[new[Len(new)].body].position = Vec3(0, 800, 0)
             /\ HasBall(scenes'[s].children, new[Len(new)].mesh)
             /\ HasBall(scenes'[s].bodies, new[Len(new)].body)]_vars

\* a fresh ball sits behind a ball that has already been through a frame
C3_Witness ==
  LET bs == scenes["earth"].balls
  IN /\ Len(bs) >= 2
     /\ meshObjs[bs[1].mesh].position # Vec3(0, 0, 0)
     /\ meshObjs[bs[Len(bs)].mesh] = NewMesh
     /\ bodyObjs[bs[Len(bs)].body].position = Vec3(0, 800, 0)

\* C4: a change event whose text parses to a number v sets gravityValue to v
\* and the world gravity to (0, -v, 0); no other step (frame, addBall,
\* resize, non-numeric input) changes either of them.
C4_GravityFollowsInput ==
  /\ [][\A s \in SceneNames : \A inp \in InputCases :
          (/\ ~inp[2].isNaN
           /\ lastVal'[s] = inp[2]
           /\ GravityInput(s, inp[1])) =>
            /\ scenes'[s].gravityValue = inp[2].value
            /\ scenes'[s].worldGravity = Vec3(0, -inp[2].value, 0)]_vars
  /\ [][\A s \in SceneNames :
          (\/ scenes'[s].gravityValue # scenes[s].gravityValue
           \/ scenes'[s].worldGravity # scenes[s].worldGravity) =>
            \E inp \in InputCases :
              /\ ~inp[2].isNaN
              /\ lastVal'[s] = inp[2]
              /\ GravityInput(s, inp[1])]_vars

\* "2" was typed into the Earth input; frames ran and a ball was added since
C4_Witness ==
  /\ lastVal["earth"] = [seen |-> TRUE, isNaN |-> FALSE,
                         value |-> 2 * GravityScale]
  /\ scenes["earth"].worldGravity = Vec3(0, -2 * GravityScale, 0)
  /\ scenes["earth"].gravityValue = 2 * GravityScale
  /\ ticked # <<>>
  /\ scenes["earth"].balls # <<>>

\* C5: a change event whose text parses to NaN leaves gravityValue, the world
\* gravity, the ball collection, the scene and the world as they were.
C5_InvalidInputIgnored ==
  [][\A s \in SceneNames : \A inp \in InputCases :
       (/\ inp[2].isNaN
        /\ lastVal'[s] = inp[2]
        /\ GravityInput(s, inp[1])) =>
         UNCHANGED <<scenes, meshObjs, bodyObjs>>]_vars

\* a non-numeric text arrived after a numeric one: the earlier value persists
C5_Witness ==
  /\ lastVal["earth"].seen /\ lastVal["earth"].isNaN
  /\ scenes["earth"].gravityValue # InitialGravity["earth"]
  /\ scenes["earth"].worldGravity = Vec3(0, -scenes["earth"].gravityValue, 0)
  /\ scenes["earth"].balls # <<>>

\* C6: a ball that is out of the active collection never comes back; the step
\* that takes it out of the collection also takes its mesh out of the scene
\* and its body out of the world; every ball in the collection has
\* done = false.
C6_OneWayLifecycle ==
  /\ [][\A n \in DOMAIN meshObjs : n \notin Active => n \notin Active']_vars
  /\ [][\A s \in SceneNames : \A n \in ActiveIn(s) :
          n \notin ActiveIn(s)' =>
            /\ ~HasBall(scenes'[s].children, n)
            /\ ~HasBall(scenes'[s].bodies, n)]_vars
  /\ [](\A s \in SceneNames : \A i \in DOMAIN scenes[s].balls :
          scenes[s].balls[i].done = FALSE)

\* a ball was removed, and a ball added after it has survived a frame
C6_Witness ==
  \E n \in DOMAIN meshObjs : \E m \in DOMAIN meshObjs :
    /\ n < m
    /\ n \notin Active
    /\ AtRest(bodyObjs[n])
    /\ m \in Active
    /\ meshObjs[m].position # Vec3(0, 0, 0)

\* what a resize may not touch: the scene object without its container,
\* camera aspect and renderer size
BesidesViewport(sc) ==
  [sc EXCEPT !.container = <<0, 0>>, !.cameraAspect = Divide(0, 0),
             !.rendererSize = <<0, 0>>]

\* a is exactly the JS quotient w / h
ExactRatio(a, w, h) ==
  IF h = 0
  THEN a.den = 0 /\ (a.num = 0 <=> w = 0)
  ELSE a.den # 0 /\ a.num * h = a.den * w

\* C7: a resize sets the camera aspect of every scene to width / height of
\* its container and the renderer size to (width, height), and leaves the
\* balls, done flags, scene, world, gravityValue and world gravity unchanged.
C7_ResizeOnlyViewport ==
  [][\A l \in SceneLayouts :
       ((\A s \in SceneNames : scenes'[s].container = l[s]) /\ WindowResize(l)) =>
       /\ \A s \in SceneNames :
            /\ ExactRatio(scenes'[s].cameraAspect, l[s][1], l[s][2])
            /\ scenes'[s].rendererSize = l[s]
            /\ BesidesViewport(scenes'[s]) = BesidesViewport(scenes[s])
       /\ UNCHANGED <<meshObjs, bodyObjs>>]_vars

\* the Earth container was resized to 0 x 0 while a ball was active
C7_Witness ==
  /\ scenes["earth"].container = <<0, 0>>
  /\ scenes["earth"].rendererSize = <<0, 0>>
  /\ scenes["earth"].cameraAspect.den = 0
  /\ scenes["earth"].balls # <<>>
  /\ ticked # <<>>

AllSpawned == Len(meshObjs) = MaxBalls

EarthCleared ==
  /\ scenes["earth"].balls = <<>>
  /\ BallCount(scenes["earth"].children) = 0
  /\ BallCount(scenes["earth"].bodies) = 0

\* C8: once the balls of the scenario have been spawned in the Earth scene
\* and frames keep running until every ball comes to rest, the collection
\* becomes empty with no ball mesh in the scene and no ball body in the
\* world; an empty scene stays empty in every step that adds no ball.
C8_ScenarioClears ==
  /\ AllSpawned ~> EarthCleared
  /\ [][(EarthCleared /\ Len(meshObjs') = Len(meshObjs)) => EarthCleared']_vars

\* all balls of the scenario were spawned and the Earth scene is empty again
C8_Witness == AllSpawned /\ EarthCleared /\ ticked = SceneOrder

\* C9: a click on scene s adds one ball to s and changes no other scene; a
\* gravity change on s changes no other scene; a frame runs animate() on
\* Earth, Moon, Jupiter in that order and takes out of each collection the
\* balls of that collection that came to rest, and no others.
C9_ScenesIsolated ==
  /\ [][\A s \in SceneNames :
          (Len(meshObjs') = Len(meshObjs) + 1 /\ Click(s)) =>
          /\ Len(scenes'[s].balls) = Len(scenes[s].balls) + 1
          /\ \A t \in SceneNames \ {s} : scenes'[t] = scenes[t]]_vars
  /\ [][\A s \in SceneNames : \A inp \in AppCases :
          (/\ lastVal'[s] = inp[2]
           /\ GravityInput(s, inp[1])) =>
          /\ scenes'[s].worldGravity = Vec3(0, -inp[2].value, 0)
          /\ \A t \in SceneNames \ {s} : scenes'[t] = scenes[t]]_vars
  /\ [][(ticked' # <<>> /\ Frame) =>
          /\ ticked' = <<"earth", "moon", "jupiter">>
          /\ \A s \in SceneNames :
               scenes'[s].balls = Unsettled(scenes[s].balls, bodyObjs')]_vars

\* Earth holds a ball that survived a frame, Jupiter's ball was removed in
\* the last frame, and only the Moon's gravity was changed
C9_Witness ==
  /\ ticked = SceneOrder
  /\ Len(scenes["earth"].balls) = 1
  /\ meshObjs[scenes["earth"].balls[1].mesh].position # Vec3(0, 0, 0)
  /\ Len(examined["jupiter"]) = 1
  /\ scenes["jupiter"].balls = <<>>
  /\ scenes["moon"].balls = <<>> /\ examined["moon"] = <<>>
  /\ scenes["moon"].gravityValue = 2 * GravityScale
  /\ scenes["earth"].gravityValue = InitialGravity["earth"]
  /\ scenes["jupiter"].gravityValue = InitialGravity["jupiter"]

\* C10: the update loop of a frame examines the balls that were in the
\* collection once each, from the last index down to 0, copies the body
\* transform of each onto its mesh, and leaves in the collection exactly the
\* balls that did not come to rest, in their original order.
C10_LoopRemovesExactly ==
  [][Frame =>
       \A s \in SceneNames :
         LET old == scenes[s].balls
             log == examined'[s]
         IN /\ Len(log) = Len(old)
            /\ \A k \in DOMAIN log :
                 /\ log[k].index = Len(old) - k
                 /\ log[k].ball = old[Len(old) - k + 1]
            /\ \A i \in DOMAIN old :
                 /\ meshObjs'[old[i].mesh].position
                      = bodyObjs'[old[i].body].position
                 /\ meshObjs'[old[i].mesh].quaternion
                      = bodyObjs'[old[i].body].quaternion
            /\ scenes'[s].balls = Unsettled(old, bodyObjs')]_vars

\* one frame removed the first and the last of three balls and kept the one
\* between them
C10_Witness ==
  /\ Len(examined["earth"]) = 3
  /\ scenes["earth"].balls = <<examined["earth"][2].ball>>
  /\ BallCount(scenes["earth"].children) = 1
  /\ BallCount(scenes["earth"].bodies) = 1

====
